---- MODULE Spec2Model ----
(***************************************************************************)
(* A model of the stress-script front end: the chunk splitter and          *)
(* ParseCommands of main.go, and the tokenizer and recursive-descent       *)
(* parser of stressql/parser.go.                                           *)
(*                                                                         *)
(* Text is a sequence of runes; a rune is a one-character string.  The two *)
(* sentinel runes of the source, rune(0) and rune(1), are the runes NUL    *)
(* and SOH.                                                                *)
(***************************************************************************)
EXTENDS Integers, Sequences, FiniteSets, TLC

(***************************************************************************)
(* Runes                                                                   *)
(***************************************************************************)
NUL == "<NUL>"
SOH == "<SOH>"
NL  == "\n"
TAB == "\t"
SP  == " "

\* main.go: var eof = rune(0)
main_eof == NUL
\* stressql/parser.go: var eof = rune(1)
eof == SOH

LowerCase == << "a","b","c","d","e","f","g","h","i","j","k","l","m",
                "n","o","p","q","r","s","t","u","v","w","x","y","z" >>
UpperCase == << "A","B","C","D","E","F","G","H","I","J","K","L","M",
                "N","O","P","Q","R","S","T","U","V","W","X","Y","Z" >>

isNewline(r) == r = NL

isWhitespace(ch) == ch = SP \/ ch = TAB \/ ch = NL

isDigit(r) == r \in {"0","1","2","3","4","5","6","7","8","9"}

isLetter(ch) == \E i \in 1..26 : ch = LowerCase[i] \/ ch = UpperCase[i]

\* strings.ToUpper, rune by rune (ASCII letters are the only cased runes used)
ToUpperRune(ch) ==
  IF \E i \in 1..26 : ch = LowerCase[i]
    THEN UpperCase[CHOOSE i \in 1..26 : ch = LowerCase[i]]
    ELSE ch

ToUpper(s) == [i \in 1..Len(s) |-> ToUpperRune(s[i])]

(***************************************************************************)
(* bufio.Reader over an in-memory text: pos is the index of the next rune, *)
(* lastOp the most recent operation.  UnreadRune succeeds only when the    *)
(* most recent operation was a ReadRune that delivered a rune; both        *)
(* scanners discard its error, so a failed unread moves nothing.           *)
(* twice records an unread issued directly after another unread.           *)
(***************************************************************************)
NewScanner == [pos |-> 1, lastOp |-> "new", twice |-> FALSE]

ReadRune(text, rd, sentinel) ==
  IF rd.pos > Len(text)
    THEN [ch |-> sentinel, rd |-> [rd EXCEPT !.lastOp = "eof"]]
    ELSE [ch |-> text[rd.pos],
          rd |-> [rd EXCEPT !.pos = rd.pos + 1, !.lastOp = "read"]]

UnreadRune(rd) ==
  [pos    |-> IF rd.lastOp = "read" THEN rd.pos - 1 ELSE rd.pos,
   lastOp |-> "unread",
   twice  |-> rd.twice \/ rd.lastOp = "unread"]

(***************************************************************************)
(* stressql: the DSL tokenizer                                             *)
(***************************************************************************)
ILLEGAL     == "ILLEGAL"
EOF         == "EOF"
WS          == "WS"
IDENT       == "IDENT"
NUMBER      == "NUMBER"
DURATIONVAL == "DURATIONVAL"
TEMPLATEVAR == "TEMPLATEVAR"
COMMA       == "COMMA"
LPAREN      == "LPAREN"
RPAREN      == "RPAREN"
LBRACKET    == "LBRACKET"
RBRACKET    == "RBRACKET"
PIPE        == "PIPE"
PERIOD      == "PERIOD"
SET         == "SET"
KW_USE      == "USE"
QUERY       == "QUERY"
INSERT      == "INSERT"
GO          == "GO"
DO          == "DO"
WAIT        == "WAIT"
STR         == "STR"
INT         == "INT"
FLOAT       == "FLOAT"
EXEC        == "EXEC"

read(text, rd) == ReadRune(text, rd, eof)

unread(rd) == UnreadRune(rd)

RECURSIVE scanWhitespaceLoop(_, _, _)
scanWhitespaceLoop(text, rd, buf) ==
  LET r == read(text, rd) IN
  IF r.ch = eof THEN [tok |-> WS, lit |-> buf, rd |-> r.rd]
  ELSE IF ~isWhitespace(r.ch) THEN [tok |-> WS, lit |-> buf, rd |-> unread(r.rd)]
  ELSE scanWhitespaceLoop(text, r.rd, Append(buf, r.ch))

scanWhitespace(text, rd) ==
  LET r == read(text, rd) IN scanWhitespaceLoop(text, r.rd, <<r.ch>>)

\* the switch of scanIdent, in source order
KeywordTable ==
  << <<SET,    <<"S","E","T">> >>,
     <<KW_USE, <<"U","S","E">> >>,
     <<QUERY,  <<"Q","U","E","R","Y">> >>,
     <<INSERT, <<"I","N","S","E","R","T">> >>,
     <<EXEC,   <<"E","X","E","C">> >>,
     <<WAIT,   <<"W","A","I","T">> >>,
     <<GO,     <<"G","O">> >>,
     <<DO,     <<"D","O">> >>,
     <<STR,    <<"S","T","R">> >>,
     <<FLOAT,  <<"F","L","O","A","T">> >>,
     <<INT,    <<"I","N","T">> >> >>

\* a mutant of Lookup: the lexeme is compared as it is written
Lookup_CaseSensitive(buf) ==
  IF \E i \in 1..Len(KeywordTable) : KeywordTable[i][2] = buf
    THEN KeywordTable[CHOOSE i \in 1..Len(KeywordTable) : KeywordTable[i][2] = buf][1]
    ELSE IDENT

Lookup(buf) ==
  LET up == ToUpper(buf) IN
  IF \E i \in 1..Len(KeywordTable) : KeywordTable[i][2] = up
    THEN KeywordTable[CHOOSE i \in 1..Len(KeywordTable) : KeywordTable[i][2] = up][1]
    ELSE IDENT

isIdentRune(ch) ==
  isLetter(ch) \/ isDigit(ch) \/ ch = "_" \/ ch = ":" \/ ch = "=" \/ ch = "-"

RECURSIVE scanIdentLoop(_, _, _)
scanIdentLoop(text, rd, buf) ==
  LET r == read(text, rd) IN
  IF r.ch = eof THEN [tok |-> Lookup(buf), lit |-> buf, rd |-> r.rd]
  ELSE IF ~isIdentRune(r.ch)
    THEN [tok |-> Lookup(buf), lit |-> buf, rd |-> unread(r.rd)]
  ELSE scanIdentLoop(text, r.rd, Append(buf, r.ch))

scanIdent(text, rd) ==
  LET r == read(text, rd) IN scanIdentLoop(text, r.rd, <<r.ch>>)

scanTemplateVar(text, rd) ==
  LET r1 == read(text, rd)
      r2 == read(text, r1.rd)
  IN [tok |-> TEMPLATEVAR, lit |-> <<r1.ch, r2.ch>>, rd |-> r2.rd]

RECURSIVE scanNumberLoop(_, _, _)
scanNumberLoop(text, rd, buf) ==
  LET r == read(text, rd) IN
  IF r.ch = eof THEN [tok |-> NUMBER, lit |-> buf, rd |-> r.rd]
  ELSE IF r.ch = "n" \/ r.ch = "s" \/ r.ch = "m"
    THEN [tok |-> DURATIONVAL, lit |-> Append(buf, r.ch), rd |-> r.rd]
  ELSE IF ~isDigit(r.ch) THEN [tok |-> NUMBER, lit |-> buf, rd |-> unread(r.rd)]
  ELSE scanNumberLoop(text, r.rd, Append(buf, r.ch))

scanNumber(text, rd) ==
  LET r == read(text, rd) IN scanNumberLoop(text, r.rd, <<r.ch>>)

Scan(text, rd) ==
  LET r == read(text, rd) IN
  IF isWhitespace(r.ch) THEN scanWhitespace(text, unread(r.rd))
  ELSE IF isLetter(r.ch) THEN scanIdent(text, unread(r.rd))
  ELSE IF isDigit(r.ch)  THEN scanNumber(text, unread(r.rd))
  ELSE IF r.ch = eof  THEN [tok |-> EOF, lit |-> <<>>, rd |-> r.rd]
  ELSE IF r.ch = "\"" THEN scanIdent(text, unread(r.rd))
  ELSE IF r.ch = "%"  THEN scanTemplateVar(text, unread(r.rd))
  ELSE IF r.ch = ","  THEN [tok |-> COMMA,    lit |-> <<",">>, rd |-> r.rd]
  ELSE IF r.ch = "."  THEN [tok |-> PERIOD,   lit |-> <<".">>, rd |-> r.rd]
  ELSE IF r.ch = "("  THEN [tok |-> LPAREN,   lit |-> <<"(">>, rd |-> r.rd]
  ELSE IF r.ch = ")"  THEN [tok |-> RPAREN,   lit |-> <<")">>, rd |-> r.rd]
  ELSE IF r.ch = "["  THEN [tok |-> LBRACKET, lit |-> <<"[">>, rd |-> r.rd]
  ELSE IF r.ch = "]"  THEN [tok |-> RBRACKET, lit |-> <<"]">>, rd |-> r.rd]
  ELSE IF r.ch = "|"  THEN [tok |-> PIPE,     lit |-> <<"|">>, rd |-> r.rd]
  ELSE [tok |-> ILLEGAL, lit |-> <<r.ch>>, rd |-> r.rd]

(***************************************************************************)
(* stressql: the statements                                                *)
(***************************************************************************)
\* a nil error (an error is the text of its message); nil pointers
nil      == <<>>
NilStmt  == [kind |-> "nil"]
NilTime  == [kind |-> "nil"]
NilTmplt == [kind |-> "nil"]
NilFn    == [kind |-> "nil"]


\* a mutant of InfluxqlStatement: a newline at the end of the text is dropped
InfluxqlStatement_Trimmed(v) ==
  [kind  |-> "InfluxqlStatement",
   Value |-> IF Len(v) > 0 /\ v[Len(v)] = NL THEN SubSeq(v, 1, Len(v) - 1) ELSE v]

InfluxqlStatement(v) == [kind |-> "InfluxqlStatement", Value |-> v]

NewInsertStatement ==
  [kind |-> "InsertStatement", Name |-> <<>>, TemplateString |-> <<>>,
   Templates |-> <<>>, Timestamp |-> NilTime]

NewQueryStatement ==
  [kind |-> "QueryStatement", Name |-> <<>>, TemplateString |-> <<>>,
   Args |-> <<>>, Count |-> <<>>]

NewExecStatement == [kind |-> "ExecStatement", Script |-> <<>>, Args |-> <<>>]

NewSetStatement == [kind |-> "SetStatement", Var |-> <<>>, Value |-> <<>>]

NewWaitStatement == [kind |-> "WaitStatement"]

GoStatement(body) == [kind |-> "GoStatement", Statement |-> body]

NewTemplate == [kind |-> "Template", Tags |-> <<>>, Functions |-> <<>>]

NewFunction ==
  [kind |-> "Function", Type |-> <<>>, Fn |-> <<>>, Argument |-> <<>>, Count |-> <<>>]

NewTimestamp ==
  [kind |-> "Timestamp", Count |-> <<>>, Duration |-> <<>>, Jitter |-> FALSE]

(***************************************************************************)
(* stressql: the parser's token buffer.  toks is a history of the tokens   *)
(* the tokenizer handed out before end of input, each with the span of     *)
(* the text it was scanned from.  last is the token scan returned most     *)
(* recently and lastCall the most recent of scan and unscan; bad records   *)
(* an unscan that did not directly follow a scan, stale a scan that        *)
(* returned from the buffer a token other than last.                       *)
(***************************************************************************)
NewParser ==
  [s        |-> NewScanner,
   buf      |-> [tok |-> ILLEGAL, lit |-> <<>>, n |-> 0],
   toks     |-> <<>>,
   last     |-> [tok |-> ILLEGAL, lit |-> <<>>],
   lastCall |-> "new",
   bad      |-> FALSE,
   stale    |-> FALSE]

\* a mutant of Scanned: the token is not saved in the buffer
Scanned_NotSaved(p, t) ==
  [tok |-> t.tok, lit |-> t.lit,
   p   |-> [p EXCEPT !.s = t.rd,
                     !.toks = IF t.tok = EOF THEN @
                              ELSE Append(@, [tok |-> t.tok, lit |-> t.lit,
                                              from |-> p.s.pos, to |-> t.rd.pos]),
                     !.last = [tok |-> t.tok, lit |-> t.lit],
                     !.lastCall = "scan"]]

\* the parser after the tokenizer returned t: the token is saved in the buffer
Scanned(p, t) ==
  [tok |-> t.tok, lit |-> t.lit,
   p   |-> [p EXCEPT !.s = t.rd,
                     !.buf = [tok |-> t.tok, lit |-> t.lit, n |-> p.buf.n],
                     !.toks = IF t.tok = EOF THEN @
                              ELSE Append(@, [tok |-> t.tok, lit |-> t.lit,
                                              from |-> p.s.pos, to |-> t.rd.pos]),
                     !.last = [tok |-> t.tok, lit |-> t.lit],
                     !.lastCall = "scan"]]

scan(text, p) ==
  IF p.buf.n # 0
    THEN [tok |-> p.buf.tok, lit |-> p.buf.lit,
          p   |-> [p EXCEPT !.buf.n = 0,
                            !.stale = @ \/ [tok |-> p.buf.tok, lit |-> p.buf.lit] # p.last,
                            !.last = [tok |-> p.buf.tok, lit |-> p.buf.lit],
                            !.lastCall = "scan"]]
    ELSE Scanned(p, Scan(text, p.s))

\* the second half of scanIgnoreWhitespace, a being the first token scanned
SkipWhitespace(text, a) == IF a.tok = WS THEN scan(text, a.p) ELSE a

scanIgnoreWhitespace(text, p) == SkipWhitespace(text, scan(text, p))

unscan(p) ==
  [p EXCEPT !.buf.n = 1,
            !.bad = @ \/ p.lastCall # "scan",
            !.lastCall = "unscan"]

(***************************************************************************)
(* stressql: the sub-parsers without loops, as functions of the parser.    *)
(* Each reads its tokens with scanIgnoreWhitespace, one after the other,   *)
(* and returns at the first that is not the expected one: its result is    *)
(* decided on the sequence of the tokens it may read, t[i] holding the     *)
(* i-th token and the parser after the i-th read.                          *)
(***************************************************************************)
RECURSIVE Tokens(_, _, _)
RECURSIVE TokensAfter(_, _, _)
\* the results of k successive calls of scanIgnoreWhitespace
Tokens(text, p, k) ==
  IF k = 0 THEN <<>> ELSE TokensAfter(text, scanIgnoreWhitespace(text, p), k)

TokensAfter(text, a, k) == <<a>> \o Tokens(text, a.p, k - 1)

FunctionOf(t) ==
  IF t[3].tok # LPAREN THEN [fn |-> NilFn, err |-> <<"LPAREN ERROR">>, p |-> t[3].p]
  ELSE IF t[4].tok # NUMBER THEN [fn |-> NilFn, err |-> <<"NUMBER ERROR">>, p |-> t[4].p]
  ELSE IF t[5].tok # RPAREN THEN [fn |-> NilFn, err |-> <<"RPAREN ERROR">>, p |-> t[5].p]
  ELSE IF t[6].tok # NUMBER THEN [fn |-> NilFn, err |-> <<"NUMBER ERROR">>, p |-> t[6].p]
  ELSE [fn  |-> [NewFunction EXCEPT !.Type = t[1].lit, !.Fn = t[2].lit,
                                    !.Argument = t[4].lit, !.Count = t[6].lit],
        err |-> nil, p |-> t[6].p]

ParseFunction(text, p) == FunctionOf(Tokens(text, p, 6))


\* a mutant of TimestampOf: count and duration exchanged
TimestampOf_Swapped(t) ==
  IF t[1].tok # NUMBER THEN [ts |-> NilTime, err |-> <<"NUMBER ERROR">>, p |-> t[1].p]
  ELSE IF t[2].tok # DURATIONVAL
    THEN [ts |-> NilTime, err |-> <<"DURATION ERROR">>, p |-> t[2].p]
  ELSE [ts  |-> [NewTimestamp EXCEPT !.Count = t[2].lit, !.Duration = t[1].lit],
        err |-> nil, p |-> t[2].p]

TimestampOf(t) ==
  IF t[1].tok # NUMBER THEN [ts |-> NilTime, err |-> <<"NUMBER ERROR">>, p |-> t[1].p]
  ELSE IF t[2].tok # DURATIONVAL
    THEN [ts |-> NilTime, err |-> <<"DURATION ERROR">>, p |-> t[2].p]
  ELSE [ts  |-> [NewTimestamp EXCEPT !.Count = t[1].lit, !.Duration = t[2].lit],
        err |-> nil, p |-> t[2].p]

ParseTimestamp(text, p) == TimestampOf(Tokens(text, p, 2))

ExecStatementOf(t) ==
  IF t[1].tok # EXEC THEN [stmt |-> NilStmt, err |-> <<"expected EXEC">>, p |-> t[1].p]
  ELSE IF t[2].tok # IDENT
    THEN [stmt |-> NilStmt, err |-> <<"expected IDENT">>, p |-> t[2].p]
  ELSE [stmt |-> [NewExecStatement EXCEPT !.Script = t[2].lit],
        err |-> nil, p |-> t[2].p]

ParseExecStatement(text, p) == ExecStatementOf(Tokens(text, p, 2))

\* a mutant of SetStatementOf: the name and the value exchanged
SetStatementOf_Swapped(t) ==
  IF t[1].tok # SET THEN [stmt |-> NilStmt, err |-> <<"expected SET">>, p |-> t[1].p]
  ELSE IF t[2].tok # IDENT
    THEN [stmt |-> NilStmt, err |-> <<"expected IDENT">>, p |-> t[2].p]
  ELSE IF t[3].tok # IDENT /\ t[3].tok # NUMBER /\ t[3].tok # DURATIONVAL
    THEN [stmt |-> NilStmt, err |-> <<"expected IDENT or NUMBER or DURATION">>,
          p |-> t[3].p]
  ELSE [stmt |-> [NewSetStatement EXCEPT !.Var = t[3].lit, !.Value = t[2].lit],
        err |-> nil, p |-> t[3].p]

SetStatementOf(t) ==
  IF t[1].tok # SET THEN [stmt |-> NilStmt, err |-> <<"expected SET">>, p |-> t[1].p]
  ELSE IF t[2].tok # IDENT
    THEN [stmt |-> NilStmt, err |-> <<"expected IDENT">>, p |-> t[2].p]
  ELSE IF t[3].tok # IDENT /\ t[3].tok # NUMBER /\ t[3].tok # DURATIONVAL
    THEN [stmt |-> NilStmt, err |-> <<"expected IDENT or NUMBER or DURATION">>,
          p |-> t[3].p]
  ELSE [stmt |-> [NewSetStatement EXCEPT !.Var = t[2].lit, !.Value = t[3].lit],
        err |-> nil, p |-> t[3].p]

ParseSetStatement(text, p) == SetStatementOf(Tokens(text, p, 3))

WaitStatementOf(t) ==
  IF t[1].tok # WAIT THEN [stmt |-> NilStmt, err |-> <<"expected WAIT">>, p |-> t[1].p]
  ELSE [stmt |-> NewWaitStatement, err |-> nil, p |-> t[1].p]

ParseWaitStatement(text, p) == WaitStatementOf(Tokens(text, p, 1))

(***************************************************************************)
(* main: the chunk splitter                                                *)
(***************************************************************************)
main_EOF  == "EOF"
STATEMENT == "STATEMENT"
BREAK     == "BREAK"

main_read(text, rd) == ReadRune(text, rd, main_eof)

main_unread(rd) == UnreadRune(rd)

main_peek(text, rd) ==
  LET r == main_read(text, rd) IN [ch |-> r.ch, rd |-> main_unread(r.rd)]

RECURSIVE scanNewlinesLoop(_, _, _)
scanNewlinesLoop(text, rd, buf) ==
  LET r == main_read(text, rd) IN
  IF r.ch = main_eof THEN [tok |-> BREAK, lit |-> buf, rd |-> r.rd]
  ELSE IF ~isNewline(r.ch) THEN [tok |-> BREAK, lit |-> buf, rd |-> main_unread(r.rd)]
  ELSE scanNewlinesLoop(text, r.rd, Append(buf, r.ch))

\* a mutant of scanNewlines: the run of newlines is handed out as a statement
scanNewlines_AsStatement(text, rd) ==
  LET r == main_read(text, rd)
  IN [scanNewlinesLoop(text, r.rd, <<r.ch>>) EXCEPT !.tok = STATEMENT]

scanNewlines(text, rd) ==
  LET r == main_read(text, rd) IN scanNewlinesLoop(text, r.rd, <<r.ch>>)

\* the second test of the loop calls peek only when ch is a newline
RECURSIVE scanStatementsLoop(_, _, _)
scanStatementsLoop(text, rd, buf) ==
  LET r  == main_read(text, rd)
      pk == main_peek(text, r.rd)
  IN IF r.ch = main_eof THEN [tok |-> STATEMENT, lit |-> buf, rd |-> r.rd]
     ELSE IF isNewline(r.ch) /\ isNewline(pk.ch)
       THEN [tok |-> STATEMENT, lit |-> buf, rd |-> main_unread(pk.rd)]
     ELSE IF isNewline(r.ch)
       THEN scanStatementsLoop(text, main_unread(pk.rd), Append(buf, r.ch))
     ELSE scanStatementsLoop(text, r.rd, Append(buf, r.ch))

scanStatements(text, rd) ==
  LET r == main_read(text, rd) IN scanStatementsLoop(text, r.rd, <<r.ch>>)

main_Scan(text, rd) ==
  LET r == main_read(text, rd) IN
  IF isNewline(r.ch) THEN scanNewlines(text, main_unread(r.rd))
  ELSE IF r.ch = main_eof THEN [tok |-> main_EOF, lit |-> <<>>, rd |-> r.rd]
  ELSE scanStatements(text, main_unread(r.rd))

(***************************************************************************)
(* The scripts ParseCommands is run on: the scenarios of the               *)
(* specification, and every script made of a statement head followed by    *)
(* at most MaxBody body pieces, or of at most MaxPieces chunk pieces.      *)
(***************************************************************************)
MaxBody   == 3
MaxPieces == 3

\* "SET rate 5\n\n"
Scenario1 ==
  <<"S","E","T",SP,"r","a","t","e",SP,"5",NL,NL>>

\* "WAIT\n\n"
Scenario2 ==
  <<"W","A","I","T",NL,NL>>

\* "EXEC loadscript\n\n"
Scenario3 ==
  <<"E","X","E","C",SP,"l","o","a","d","s","c","r","i","p","t",NL,NL>>

\* "GO EXEC loadscript\n\n"
Scenario4 ==
  <<"G","O",SP,"E","X","E","C",SP,"l","o","a","d","s","c","r","i","p","t",NL,NL>>

\* "QUERY q1 select * from cpu where host=%s DO 100\n\n"
Scenario5 ==
  <<"Q","U","E","R","Y",SP,"q","1",SP,"s","e","l","e","c","t",SP,"*",SP,"f","r","o","m",SP,"c","p","u",SP,"w","h","e","r","e",SP,"h","o","s","t","=","%","s",SP,"D","O",SP,"1","0","0",NL,NL>>

\* "INSERT cpu,host=serverA 10s\n\n"
Scenario6 ==
  <<"I","N","S","E","R","T",SP,"c","p","u",",","h","o","s","t","=","s","e","r","v","e","r","A",SP,"1","0","s",NL,NL>>

\* "INSERT cpu ,host=serverA 10 10s\n\n"
Scenario6ws ==
  <<"I","N","S","E","R","T",SP,"c","p","u",SP,",","h","o","s","t","=","s","e","r","v","e","r","A",SP,"1","0",SP,"1","0","s",NL,NL>>

\* "WAIT\n\nx\n\nWAIT\n\n": a chunk the parser fails on, between two it parses
FailingSecond ==
  <<"W","A","I","T",NL,NL,"x",NL,NL,"W","A","I","T",NL,NL>>

Scenarios == {Scenario1, Scenario2, Scenario3, Scenario4, Scenario5, Scenario6,
              Scenario6ws, FailingSecond}

QueryHeads ==
  { <<"Q","U","E","R","Y",SP,"q">>,
    <<"G","O",SP,"Q","U","E","R","Y",SP,"q">>,
    <<"Q","U","E","R","Y">> }

QueryPieces ==
  { <<"%","s">>,
    <<"%">>,
    <<SP>>,
    <<NL>>,
    <<"a","=">>,
    <<SP,"D","O",SP,"7">>,
    <<SP,"d","o",SP,"x">> }

InsertHeads ==
  { <<"I","N","S","E","R","T",SP,"m",SP>>,
    <<"G","O",SP,"I","N","S","E","R","T",SP,"m",SP>> }

InsertPieces ==
  { <<"t">>,
    <<",">>,
    <<SP>>,
    <<"[">>,
    <<"[","t","]">>,
    <<"[","i","n","t",SP,"f","(","1",")",SP,"2","]">>,
    <<"i","n","t",SP,"f","(">>,
    <<"1",SP,"2","s">>,
    <<"3">> }

ChunkPieces ==
  { <<"W","A","I","T">>,
    <<"S","E","T",SP,"v",SP,"1">>,
    <<"E","X","E","C",SP,"s">>,
    <<"G","O",SP>>,
    <<"x">>,
    <<NL,NL>>,
    <<NL>>,
    <<SP,"2">> }

SetHeads ==
  { <<"S","E","T",SP,"v">>,
    <<"S","E","T">> }

SetPieces ==
  { <<SP>>,
    <<"1">>,
    <<"s">>,
    <<"x">>,
    <<",">> }

\* the keywords in one case or another, and what may follow one
KeywordWords ==
  { <<"s","e","t">>,
    <<"U","s","e">>,
    <<"q","U","e","R","y">>,
    <<"I","n","s","e","r","t">>,
    <<"g","o">>,
    <<"d","O">>,
    <<"w","a","i","t">>,
    <<"E","X","E","C">>,
    <<"s","t","r">>,
    <<"I","n","t">>,
    <<"F","L","O","A","T">> }

KeywordSuffixes ==
  { <<>>,
    <<"x">>,
    <<"_">>,
    <<"1">>,
    <<SP,"x">> }

\* scripts that hold the runes the two scanners use as their end markers
SentinelPieces ==
  { <<NUL>>,
    <<SOH>>,
    <<"x">>,
    <<"*">>,
    <<NL>> }

SeqsUpTo(S, n) == UNION { [1..k -> S] : k \in 0..n }

RECURSIVE Concat(_)
Concat(ss) == IF ss = <<>> THEN <<>> ELSE Head(ss) \o Concat(Tail(ss))

Scripts ==
  Scenarios
  \cup { h \o Concat(b) : h \in QueryHeads,  b \in SeqsUpTo(QueryPieces, MaxBody) }
  \cup { h \o Concat(b) : h \in InsertHeads, b \in SeqsUpTo(InsertPieces, MaxBody) }
  \cup { h \o Concat(b) : h \in SetHeads,    b \in SeqsUpTo(SetPieces, MaxBody) }
  \cup { w \o x : w \in KeywordWords, x \in KeywordSuffixes }
  \cup { Concat(b) : b \in SeqsUpTo(ChunkPieces, MaxPieces) }
  \cup { Concat(b) : b \in SeqsUpTo(SentinelPieces, MaxPieces) }

(***************************************************************************)
(* The state: ParseCommands and the parser it runs on a chunk.  The loops  *)
(* of the parser take one step per iteration; everything else a function   *)
(* does between two calls is one step.                                     *)
(***************************************************************************)
VARIABLES
  script,  \* the contents of the file
  sc,      \* ParseCommands: s, the chunk scanner
  seq,     \* ParseCommands: seq
  tk,      \* ParseCommands: t
  chunk,   \* ParseCommands: l
  ret,     \* what ParseCommands returned
  pc,      \* the function control is in
  src,     \* the text of the reader the Parser was made on
  prs,     \* the Parser p
  go,      \* ParseGoStatement is on the call stack
  stmt,    \* the statement ParseQueryStatement or ParseInsertStatement builds
  prev,    \* ParseInsertStatement: prev
  tmplt,   \* ParseTemplate: tmplt
  iter,    \* the parity of the number of iterations the parser's loops made
  calls    \* history: the calls of influxql.ParseStatement and of NewParser,
           \* each with the chunk (its kind, its text, where it starts in the
           \* script) and what influxql.ParseStatement said of it

vars == <<script, sc, seq, tk, chunk, ret, pc, src, prs, go, stmt, prev, tmplt, iter,
          calls>>

NoRet == [kind |-> "none"]

Init ==
  /\ script \in Scripts
  /\ sc = NewScanner
  /\ seq = <<>>
  /\ tk = ILLEGAL
  /\ chunk = <<>>
  /\ ret = NoRet
  /\ pc = "ParseCommands"
  /\ src = <<>>
  /\ prs = NewParser
  /\ go = FALSE
  /\ stmt = NilStmt
  /\ prev = ILLEGAL
  /\ tmplt = NilTmplt
  /\ iter = 0
  /\ calls = <<>>

(***************************************************************************)
(* ParseCommands                                                           *)
(***************************************************************************)
\* one iteration of the loop, up to the call of Parse; ok is the verdict of
\* influxql.ParseStatement on the chunk
\* what influxql.ParseStatement may say of the text l: it finds the end of
\* the input where it expects the first keyword of a statement, and rejects
\* the text, when l holds nothing but whitespace; of any other text the model
\* lets it say either
Verdicts(l) ==
  IF \A i \in 1..Len(l) : isWhitespace(l[i]) THEN {FALSE} ELSE BOOLEAN

Call(op, t, l, from, ok) == [op |-> op, t |-> t, l |-> l, from |-> from, ok |-> ok]

\* a mutant of Classify: a break chunk the validator rejects is parsed too
Classify_ParseBreak(t, l, from, ok) ==
  /\ tk' = t
  /\ chunk' = l
  /\ ret' = ret
  /\ IF ok
       THEN /\ seq' = Append(seq, InfluxqlStatement(l))
            /\ calls' = Append(calls, Call("ParseStatement", t, l, from, ok))
            /\ pc' = "ParseCommands"
            /\ UNCHANGED <<src, prs>>
       ELSE /\ calls' = calls \o << Call("ParseStatement", t, l, from, ok),
                                    Call("NewParser", t, l, from, ok) >>
            /\ src' = l
            /\ prs' = NewParser
            /\ pc' = "Parse"
            /\ UNCHANGED seq

Classify(t, l, from, ok) ==
  /\ tk' = t
  /\ chunk' = l
  /\ ret' = ret
  /\ IF ok
       THEN /\ seq' = Append(seq, InfluxqlStatement(l))
            /\ calls' = Append(calls, Call("ParseStatement", t, l, from, ok))
            /\ pc' = "ParseCommands"
            /\ UNCHANGED <<src, prs>>
     ELSE IF t = BREAK
       THEN /\ calls' = Append(calls, Call("ParseStatement", t, l, from, ok))
            /\ pc' = "ParseCommands"
            /\ UNCHANGED <<seq, src, prs>>
     ELSE /\ calls' = calls \o << Call("ParseStatement", t, l, from, ok),
                                  Call("NewParser", t, l, from, ok) >>
          /\ src' = l
          /\ prs' = NewParser
          /\ pc' = "Parse"
          /\ UNCHANGED seq

ParseCommands ==
  /\ pc = "ParseCommands"
  /\ LET c == main_Scan(script, sc) IN
     /\ sc' = c.rd
     /\ IF c.tok = main_EOF
          THEN /\ pc' = "done"
               /\ ret' = [kind |-> "return", seq |-> seq, isNil |-> FALSE, err |-> nil]
               /\ UNCHANGED <<seq, tk, chunk, src, prs, calls>>
          ELSE \E ok \in Verdicts(c.lit) : Classify(c.tok, c.lit, sc.pos, ok)
  /\ UNCHANGED <<script, go, stmt, prev, tmplt, iter>>


\* a mutant of Deliver: the statements read so far are returned with the error
Deliver_Partial(s, err) ==
  IF err # nil
    THEN /\ pc' = "done"
         /\ ret' = [kind |-> "return", seq |-> seq, isNil |-> FALSE, err |-> err]
         /\ seq' = seq
    ELSE /\ pc' = "ParseCommands"
         /\ seq' = Append(seq, s)
         /\ ret' = ret

\* the end of the iteration: what Parse returned
Deliver(s, err) ==
  IF err # nil
    THEN /\ pc' = "done"
         /\ ret' = [kind |-> "return", seq |-> <<>>, isNil |-> TRUE, err |-> err]
         /\ seq' = seq
    ELSE /\ pc' = "ParseCommands"
         /\ seq' = Append(seq, s)
         /\ ret' = ret

(***************************************************************************)
(* stressql: Parse and the statement parsers                               *)
(***************************************************************************)

\* a mutant of GoReturn: the inner statement is returned unwrapped
GoReturn_Unwrapped(body, err) ==
  IF err # nil
    THEN [stmt |-> NilStmt, err |-> <<"found">> \o err]
    ELSE [stmt |-> body, err |-> nil]

\* the end of ParseGoStatement
GoReturn(body, err) ==
  IF err # nil
    THEN [stmt |-> NilStmt, err |-> <<"found">> \o err]
    ELSE [stmt |-> GoStatement(body), err |-> nil]

\* a statement parser returns to Parse, through ParseGoStatement when that
\* called it
Return(s, err) ==
  LET r == IF go THEN GoReturn(s, err) ELSE [stmt |-> s, err |-> err] IN
  /\ go' = FALSE
  /\ Deliver(r.stmt, r.err)

ParserOf(tok) ==
  CASE tok = QUERY  -> "ParseQueryStatement"
    [] tok = INSERT -> "ParseInsertStatement"
    [] tok = EXEC   -> "ParseExecStatement"
    [] tok = SET    -> "ParseSetStatement"
    [] tok = GO     -> "ParseGoStatement"
    [] tok = WAIT   -> "ParseWaitStatement"

Parse ==
  /\ pc = "Parse"
  /\ LET a == scanIgnoreWhitespace(src, prs) IN
     IF a.tok \in {QUERY, INSERT, EXEC, SET, GO, WAIT}
       THEN /\ prs' = unscan(a.p)
            /\ pc' = ParserOf(a.tok)
            /\ UNCHANGED <<seq, ret, go>>
       ELSE /\ prs' = a.p
            /\ Return(NilStmt, <<"unknown token">>)
  /\ stmt' = NilStmt
  /\ prev' = ILLEGAL
  /\ tmplt' = NilTmplt
  /\ UNCHANGED <<script, sc, tk, chunk, src, calls, iter>>

ExecStatement ==
  /\ pc = "ParseExecStatement"
  /\ LET r == ParseExecStatement(src, prs) IN
     /\ prs' = r.p
     /\ Return(r.stmt, r.err)
  /\ UNCHANGED <<script, sc, tk, chunk, src, calls, stmt, prev, tmplt, iter>>

SetStatement ==
  /\ pc = "ParseSetStatement"
  /\ LET r == ParseSetStatement(src, prs) IN
     /\ prs' = r.p
     /\ Return(r.stmt, r.err)
  /\ UNCHANGED <<script, sc, tk, chunk, src, calls, stmt, prev, tmplt, iter>>

WaitStatement ==
  /\ pc = "ParseWaitStatement"
  /\ LET r == ParseWaitStatement(src, prs) IN
     /\ prs' = r.p
     /\ Return(r.stmt, r.err)
  /\ UNCHANGED <<script, sc, tk, chunk, src, calls, stmt, prev, tmplt, iter>>

\* a mutant of ParseGoStatement: a token after GO that is none of QUERY,
\* INSERT and EXEC is an error
ParseGoStatement_Strict ==
  /\ pc = "ParseGoStatement"
  /\ LET a == scanIgnoreWhitespace(src, prs)
         b == scanIgnoreWhitespace(src, a.p)
     IN IF a.tok # GO
          THEN /\ prs' = a.p
               /\ go' = FALSE
               /\ Deliver(NilStmt, <<"expected GO">>)
        ELSE IF b.tok \in {QUERY, INSERT, EXEC}
          THEN /\ prs' = unscan(b.p)
               /\ go' = TRUE
               /\ pc' = ParserOf(b.tok)
               /\ UNCHANGED <<seq, ret>>
        ELSE /\ prs' = b.p
             /\ go' = FALSE
             /\ Deliver(NilStmt, <<"expected QUERY or INSERT or EXEC">>)
  /\ UNCHANGED <<script, sc, tk, chunk, src, calls, stmt, prev, tmplt, iter>>

ParseGoStatement ==
  /\ pc = "ParseGoStatement"
  /\ LET a == scanIgnoreWhitespace(src, prs)
         b == scanIgnoreWhitespace(src, a.p)
         r == GoReturn(NilStmt, nil)
     IN IF a.tok # GO
          THEN /\ prs' = a.p
               /\ go' = FALSE
               /\ Deliver(NilStmt, <<"expected GO">>)
        ELSE IF b.tok \in {QUERY, INSERT, EXEC}
          THEN /\ prs' = unscan(b.p)
               /\ go' = TRUE
               /\ pc' = ParserOf(b.tok)
               /\ UNCHANGED <<seq, ret>>
        ELSE /\ prs' = b.p
             /\ go' = FALSE
             /\ Deliver(r.stmt, r.err)
  /\ UNCHANGED <<script, sc, tk, chunk, src, calls, stmt, prev, tmplt, iter>>

ParseQueryStatement ==
  /\ pc = "ParseQueryStatement"
  /\ LET a == scanIgnoreWhitespace(src, prs)
         b == scanIgnoreWhitespace(src, a.p)
     IN IF a.tok # QUERY
          THEN /\ prs' = a.p
               /\ stmt' = stmt
               /\ Return(NilStmt, <<"expected QUERY">>)
        ELSE IF b.tok # IDENT
          THEN /\ prs' = b.p
               /\ stmt' = stmt
               /\ Return(NilStmt, <<"expected IDENT">>)
        ELSE /\ prs' = b.p
             /\ stmt' = NewQueryStatement
             /\ pc' = "QueryLoop"
             /\ UNCHANGED <<seq, ret, go>>
  /\ UNCHANGED <<script, sc, tk, chunk, src, calls, prev, tmplt, iter>>


\* a mutant of QueryItem: the lexeme of a template variable is not recorded
QueryItem_NoArg(st, tok, lit) ==
  IF tok = TEMPLATEVAR
    THEN [st EXCEPT !.TemplateString = @ \o <<"%", "v">>]
  ELSE IF tok = WS /\ lit = <<NL>> THEN st
  ELSE [st EXCEPT !.TemplateString = @ \o lit]

\* what a token of the body other than DO does to the statement
QueryItem(st, tok, lit) ==
  IF tok = TEMPLATEVAR
    THEN [st EXCEPT !.TemplateString = @ \o <<"%", "v">>, !.Args = Append(@, lit)]
  ELSE IF tok = WS /\ lit = <<NL>> THEN st
  ELSE [st EXCEPT !.TemplateString = @ \o lit]

\* one iteration of the loop of ParseQueryStatement
QueryLoop ==
  /\ pc = "QueryLoop"
  /\ LET a == scan(src, prs)
         b == scanIgnoreWhitespace(src, a.p)
         q == [stmt EXCEPT !.Count = b.lit]
     IN IF a.tok = DO
          THEN /\ prs' = b.p
               /\ IF b.tok # NUMBER
                    THEN /\ stmt' = stmt
                         /\ Return(NilStmt, <<"expected NUMBER">>)
                    ELSE /\ stmt' = q
                         /\ Return(q, nil)
          ELSE /\ prs' = a.p
               /\ stmt' = QueryItem(stmt, a.tok, a.lit)
               /\ UNCHANGED <<pc, seq, ret, go>>
  /\ iter' = 1 - iter
  /\ UNCHANGED <<script, sc, tk, chunk, src, calls, prev, tmplt>>

ParseInsertStatement ==
  /\ pc = "ParseInsertStatement"
  /\ LET a == scanIgnoreWhitespace(src, prs)
         b == scanIgnoreWhitespace(src, a.p)
         c == scan(src, b.p)
     IN IF a.tok # INSERT
          THEN /\ prs' = a.p
               /\ stmt' = stmt
               /\ Return(NilStmt, <<"expected INSERT">>)
        ELSE IF b.tok # IDENT
          THEN /\ prs' = b.p
               /\ stmt' = stmt
               /\ Return(NilStmt, <<"expected IDENT">>)
        ELSE IF c.tok # WS
          THEN /\ prs' = c.p
               /\ stmt' = stmt
               /\ Return(NilStmt, <<"expected WS">>)
        ELSE /\ prs' = c.p
             /\ stmt' = [NewInsertStatement EXCEPT !.Name = b.lit]
             /\ pc' = "InsertLoop"
             /\ UNCHANGED <<seq, ret, go>>
  /\ prev' = ILLEGAL
  /\ UNCHANGED <<script, sc, tk, chunk, src, calls, tmplt, iter>>

\* what a whitespace, identifier or comma token of the field list does to
\* the statement and to prev
InsertItem(st, pv, tok, lit) ==
  IF tok = WS
    THEN IF pv = COMMA
           THEN [stmt |-> st, prev |-> pv]
           ELSE [stmt |-> [st EXCEPT !.TemplateString = @ \o <<SP>>], prev |-> pv]
    ELSE [stmt |-> [st EXCEPT !.TemplateString = @ \o lit], prev |-> tok]


\* a mutant of InsertPlaceholder: a '[' or a number leaves no placeholder
InsertPlaceholder_None(st) == st

\* the statement when the field list reaches a '[' or a number
InsertPlaceholder(st) == [st EXCEPT !.TemplateString = @ \o <<"%", "v">>]

\* one iteration of the loop of ParseInsertStatement
InsertLoop ==
  /\ pc = "InsertLoop"
  /\ LET a  == scan(src, prs)
         ts == ParseTimestamp(src, unscan(a.p))
         it == InsertItem(stmt, prev, a.tok, a.lit)
     IN IF a.tok = WS
          THEN /\ prs' = a.p
               /\ stmt' = it.stmt
               /\ prev' = it.prev
               /\ UNCHANGED <<pc, seq, ret, go, tmplt>>
        ELSE IF a.tok = LBRACKET
          THEN /\ prs' = a.p
               /\ stmt' = InsertPlaceholder(stmt)
               /\ tmplt' = NewTemplate
               /\ pc' = "ParseTemplate"
               /\ UNCHANGED <<seq, ret, go, prev>>
        ELSE IF a.tok = NUMBER
          THEN /\ prs' = ts.p
               /\ IF ts.err # nil
                    THEN /\ stmt' = InsertPlaceholder(stmt)
                         /\ Return(NilStmt, <<"TIME ERROR">>)
                    ELSE /\ stmt' = [InsertPlaceholder(stmt) EXCEPT !.Timestamp = ts.ts]
                         /\ Return([InsertPlaceholder(stmt) EXCEPT !.Timestamp = ts.ts], nil)
               /\ UNCHANGED <<prev, tmplt>>
        ELSE IF a.tok # IDENT /\ a.tok # COMMA
          THEN /\ prs' = a.p
               /\ stmt' = stmt
               /\ Return(NilStmt, <<"expected IDENT or COMMA">>)
               /\ UNCHANGED <<prev, tmplt>>
        ELSE /\ prs' = a.p
             /\ stmt' = it.stmt
             /\ prev' = it.prev
             /\ UNCHANGED <<pc, seq, ret, go, tmplt>>
  /\ iter' = 1 - iter
  /\ UNCHANGED <<script, sc, tk, chunk, src, calls>>

\* one iteration of the loop of ParseTemplate; its return to
\* ParseInsertStatement, which appends the template
ParseTemplate ==
  /\ pc = "ParseTemplate"
  /\ LET a == scanIgnoreWhitespace(src, prs)
         f == ParseFunction(src, unscan(a.p))
     IN IF a.tok = IDENT
          THEN /\ prs' = a.p
               /\ tmplt' = [tmplt EXCEPT !.Tags = Append(@, a.lit)]
               /\ UNCHANGED <<pc, seq, ret, go, stmt>>
        ELSE IF a.tok = INT \/ a.tok = FLOAT \/ a.tok = STR
          THEN /\ prs' = f.p
               /\ IF f.err # nil
                    THEN /\ tmplt' = tmplt
                         /\ stmt' = [stmt EXCEPT !.Templates = Append(@, NilTmplt)]
                         /\ Return(NilStmt, <<"TEMPLATE ERROR">>)
                    ELSE /\ tmplt' = [tmplt EXCEPT !.Functions = Append(@, f.fn)]
                         /\ UNCHANGED <<pc, seq, ret, go, stmt>>
        ELSE IF a.tok = RBRACKET
          THEN /\ prs' = a.p
               /\ tmplt' = tmplt
               /\ stmt' = [stmt EXCEPT !.Templates = Append(@, tmplt)]
               /\ pc' = "InsertLoop"
               /\ UNCHANGED <<seq, ret, go>>
        ELSE /\ prs' = a.p
             /\ UNCHANGED <<pc, seq, ret, go, stmt, tmplt>>
  /\ iter' = 1 - iter
  /\ UNCHANGED <<script, sc, tk, chunk, src, calls, prev>>

Next ==
  \/ ParseCommands
  \/ Parse
  \/ ParseQueryStatement
  \/ QueryLoop
  \/ ParseInsertStatement
  \/ InsertLoop
  \/ ParseTemplate
  \/ ExecStatement
  \/ SetStatement
  \/ WaitStatement
  \/ ParseGoStatement

Spec == Init /\ [][Next]_vars

(***************************************************************************)
(* What the claims are stated with                                         *)
(***************************************************************************)
Last(s) == s[Len(s)]

\* the number of "%v" in a string
Placeholders(s) ==
  Cardinality({ i \in 1..(Len(s) - 1) : s[i] = "%" /\ s[i + 1] = "v" })

\* s ends with "%v"
EndsWithPlaceholder(s) ==
  Len(s) >= 2 /\ s[Len(s) - 1] = "%" /\ s[Len(s)] = "v"

\* x occurs in s and ends before the last two runes of s
OccursBeforeEnd(x, s) ==
  \E i \in 1..Len(s) :
    /\ i + Len(x) - 1 <= Len(s) - 2
    /\ SubSeq(s, i, i + Len(x) - 1) = x

IsWS(t) == t.tok = WS
NotWS(t) == t.tok # WS
IsTemplateVar(t) == t.tok = TEMPLATEVAR
IsOffer(c) == c.op = "ParseStatement"
IsAccepted(c) == c.op = "ParseStatement" /\ c.ok
IsPassthrough(st) == st.kind = "InfluxqlStatement"

\* the tokens the parser has been handed that are not whitespace
Words == SelectSeq(prs.toks, NotWS)

\* influxql.ParseStatement has rejected every chunk so far
Rejected == \A i \in 1..Len(calls) : ~calls[i].ok

\* the parser has just returned a statement for src, now the last of seq
Delivered ==
  /\ pc = "ParseCommands"
  /\ Len(calls) > 0
  /\ Last(calls).op = "NewParser"

\* ParseCommands has returned the statements seq and no error
ReturnedOK == pc = "done" /\ ret.err = nil

\* a statement and, for a GoStatement, the statement it wraps
Inner(st) == IF st.kind = "GoStatement" THEN st.Statement ELSE st

\* every chunk of the script, as the chunk splitter cuts it
RECURSIVE ChunksFrom(_, _)
ChunksFrom(text, rd) ==
  LET c == main_Scan(text, rd) IN
  IF c.tok = main_EOF THEN <<>>
  ELSE <<[t |-> c.tok, l |-> c.lit]>> \o ChunksFrom(text, c.rd)

AllChunks == ChunksFrom(script, NewScanner)

Offers == SelectSeq(calls, IsOffer)

(***************************************************************************)
(* C1                                                                      *)
(***************************************************************************)
\* C1, as claimed: parsing "INSERT cpu,host=serverA 10s\n\n", the validator
\* rejecting the chunk, returns without error exactly one InsertStatement of
\* name "cpu", whose templateString contains ",host=serverA" followed by a
\* trailing "%v", and whose timestamp has count "10" and a duration.
C1_Scenario6Parses ==
  (pc = "done" /\ script = Scenario6 /\ Rejected) =>
    /\ ret.err = nil
    /\ Len(ret.seq) = 1
    /\ ret.seq[1].kind = "InsertStatement"
    /\ ret.seq[1].Name = <<"c","p","u">>
    /\ OccursBeforeEnd(<<",","h","o","s","t","=","s","e","r","v","e","r","A">>, ret.seq[1].TemplateString)
    /\ EndsWithPlaceholder(ret.seq[1].TemplateString)
    /\ ret.seq[1].Timestamp # NilTime
    /\ ret.seq[1].Timestamp.Count = <<"1","0">>
    /\ ret.seq[1].Timestamp.Duration # <<>>

\* C1, amended: parsing "INSERT cpu,host=serverA 10s\n\n", the validator
\* rejecting the chunk, returns the error "expected WS" and no statement (the
\* name must be followed by whitespace); parsing
\* "INSERT cpu ,host=serverA 10 10s\n\n", where whitespace follows the name
\* and the timestamp is a number and a duration value, returns without error
\* exactly one InsertStatement of name "cpu", templateString
\* ",host=serverA %v", no template, and timestamp count "10", duration "10s".
C1_Scenario6Amended ==
  /\ (pc = "done" /\ script = Scenario6 /\ Rejected) =>
       /\ ret.err = <<"expected WS">>
       /\ ret.isNil
       /\ ret.seq = <<>>
  /\ (pc = "done" /\ script = Scenario6ws /\ Rejected) =>
       /\ ret.err = nil
       /\ ret.seq =
            << [kind |-> "InsertStatement",
                Name |-> <<"c","p","u">>,
                TemplateString |-> <<",","h","o","s","t","=","s","e","r","v","e","r","A">> \o <<SP, "%", "v">>,
                Templates |-> <<>>,
                Timestamp |-> [kind |-> "Timestamp", Count |-> <<"1","0">>,
                               Duration |-> <<"1","0","s">>, Jitter |-> FALSE]] >>

C1_Witness == pc = "done" /\ script = Scenario6 /\ Rejected /\ Len(calls) = 2

(***************************************************************************)
(* C2                                                                      *)
(***************************************************************************)
\* C2: a rejected chunk QUERY <ident> <body> DO <number> gives a
\* QueryStatement whose name is the lexeme of <ident> and whose count is the
\* lexeme of <number>; "QUERY q1 select * from cpu where host=%s DO 100"
\* gives name "q1", args ["%s"], count "100" and one "%v" in templateString.
C2_QueryNameAndCount ==
  /\ (Delivered /\ Len(Words) > 0 /\ Words[1].tok = QUERY) =>
       /\ Last(seq).kind = "QueryStatement"
       /\ Last(seq).Name = Words[2].lit
       /\ Last(seq).Count = Last(Words).lit
  /\ (pc = "done" /\ script = Scenario5 /\ Rejected) =>
       /\ ret.err = nil
       /\ Len(ret.seq) = 1
       /\ ret.seq[1].kind = "QueryStatement"
       /\ ret.seq[1].Name = <<"q","1">>
       /\ ret.seq[1].Args = << <<"%","s">> >>
       /\ ret.seq[1].Count = <<"1","0","0">>
       /\ Placeholders(ret.seq[1].TemplateString) = 1

(***************************************************************************)
(* C3                                                                      *)
(***************************************************************************)
\* C3: on every chunk Parse returns, the loops of the QUERY body and of the
\* bracketed template leaving once the tokenizer has reported the end of the
\* input.  The parser is deterministic, so a loop that ends makes progress
\* in every iteration: no iteration that stays in the loop leaves the
\* parser, the statement and the template as they were (the loop would then
\* repeat that iteration forever).
C3_LoopsProgress ==
  [][ (pc \in {"QueryLoop", "InsertLoop", "ParseTemplate"} /\ pc' = pc)
        => <<prs, stmt, prev, tmplt>>' # <<prs, stmt, prev, tmplt>> ]_vars

C5_WholeChunk ==
  Delivered =>
    /\ prs.buf.n = 0
    /\ \A i \in prs.s.pos..Len(src) : isWhitespace(src[i])

(***************************************************************************)
(* C6                                                                      *)
(***************************************************************************)
\* C6: every InsertStatement the parser returned has a timestamp, and its
\* templateString holds len(templates) + 1 placeholders "%v", the last of
\* them, for the timestamp, ending the string.
C6_InsertPlaceholders ==
  \A i \in 1..Len(seq) :
    Inner(seq[i]).kind = "InsertStatement" =>
      /\ Inner(seq[i]).Timestamp # NilTime
      /\ Placeholders(Inner(seq[i]).TemplateString) = Len(Inner(seq[i]).Templates) + 1
      /\ EndsWithPlaceholder(Inner(seq[i]).TemplateString)

\* an InsertStatement with two templates was returned
C6_Witness ==
  /\ Delivered
  /\ Inner(Last(seq)).kind = "InsertStatement"
  /\ Len(Inner(Last(seq)).Templates) = 2

(***************************************************************************)
(* C7                                                                      *)
(***************************************************************************)
\* C7: every QueryStatement the parser returned, and the one it is building,
\* has as many args as its templateString has "%v", and its args are the
\* lexemes of the template-variable tokens of the chunk, in source order.
C7_QueryArgs ==
  /\ \A i \in 1..Len(seq) :
       Inner(seq[i]).kind = "QueryStatement" =>
         Len(Inner(seq[i]).Args) = Placeholders(Inner(seq[i]).TemplateString)
  /\ (stmt.kind = "QueryStatement" /\ (pc = "QueryLoop" \/ Delivered)) =>
       /\ Len(stmt.Args) = Placeholders(stmt.TemplateString)
       /\ Len(stmt.Args) = Len(SelectSeq(prs.toks, IsTemplateVar))
       /\ \A i \in 1..Len(stmt.Args) :
            stmt.Args[i] = SelectSeq(prs.toks, IsTemplateVar)[i].lit

\* a QueryStatement with two args was returned
C7_Witness ==
  /\ Delivered
  /\ Last(seq).kind = "QueryStatement"
  /\ Len(Last(seq).Args) = 2

(***************************************************************************)
(* C8                                                                      *)
(***************************************************************************)
\* C8: the lexeme of every token the tokenizer returned is the part of the
\* chunk it was scanned from, and the lexemes of the tokens returned so far,
\* in order, make up the part of the chunk read so far.
C8_Lexemes ==
  /\ \A i \in 1..Len(prs.toks) :
       prs.toks[i].lit = SubSeq(src, prs.toks[i].from, prs.toks[i].to - 1)
  /\ Concat([i \in 1..Len(prs.toks) |-> prs.toks[i].lit])
       = SubSeq(src, 1, prs.s.pos - 1)

(***************************************************************************)
(* C9                                                                      *)
(***************************************************************************)
KindOf(tok) ==
  CASE tok = QUERY  -> "QueryStatement"
    [] tok = INSERT -> "InsertStatement"
    [] tok = EXEC   -> "ExecStatement"

\* the chunk is GO followed by QUERY, INSERT or EXEC
GoChunk ==
  /\ Len(Words) >= 2
  /\ Words[1].tok = GO
  /\ Words[2].tok \in {QUERY, INSERT, EXEC}

\* C9: no GoStatement of the result wraps a GoStatement, a SetStatement or a
\* WaitStatement; when the chunk is GO followed by QUERY, INSERT or EXEC and
\* the inner statement parses, the result is a GoStatement that wraps that
\* statement; "GO EXEC loadscript" gives
\* GoStatement{ExecStatement{scriptName "loadscript"}}.
C9_GoWraps ==
  /\ \A i \in 1..Len(seq) :
       seq[i].kind = "GoStatement" =>
         seq[i].Statement.kind \notin {"GoStatement", "SetStatement", "WaitStatement"}
  /\ (Delivered /\ GoChunk) =>
       /\ Last(seq).kind = "GoStatement"
       /\ Last(seq).Statement.kind = KindOf(Words[2].tok)
       /\ Last(seq).Statement =
            IF Words[2].tok = EXEC
              THEN [NewExecStatement EXCEPT !.Script = Words[3].lit]
              ELSE stmt
  /\ (pc = "done" /\ script = Scenario4 /\ Rejected) =>
       /\ ret.err = nil
       /\ ret.seq = << [kind |-> "GoStatement",
                        Statement |-> [kind |-> "ExecStatement",
                                       Script |-> <<"l","o","a","d","s","c","r","i","p","t">>,
                                       Args |-> <<>>]] >>

\* a GoStatement wrapping an InsertStatement was returned
C9_Witness ==
  /\ Delivered
  /\ GoChunk
  /\ Last(seq).kind = "GoStatement"
  /\ Last(seq).Statement.kind = "InsertStatement"

(***************************************************************************)
(* C10                                                                     *)
(***************************************************************************)
\* the statements of seq that the parser returned
Parses ==
  Cardinality({ i \in 1..Len(calls) : calls[i].op = "NewParser" })
    - (IF pc \notin {"ParseCommands", "done"} \/ (ret # NoRet /\ ret.err # nil)
         THEN 1 ELSE 0)

\* C10: for every chunk the validator accepts exactly one passthrough
\* statement is appended, whose text is the text of the chunk, rune for rune
\* as it stands in the script; the parser is made only on a chunk the
\* validator was asked about first and rejected.
C10_Passthrough ==
  /\ \A i \in 1..Len(calls) :
       calls[i].op = "NewParser" =>
         /\ i > 1
         /\ calls[i - 1] = [calls[i] EXCEPT !.op = "ParseStatement"]
         /\ ~calls[i].ok
  /\ \A i \in 1..Len(calls) :
       calls[i].l = SubSeq(script, calls[i].from, calls[i].from + Len(calls[i].l) - 1)
  /\ Len(SelectSeq(seq, IsPassthrough)) = Len(SelectSeq(calls, IsAccepted))
  /\ \A i \in 1..Len(SelectSeq(seq, IsPassthrough)) :
       SelectSeq(seq, IsPassthrough)[i].Value = SelectSeq(calls, IsAccepted)[i].l
  /\ Len(seq) = Len(SelectSeq(calls, IsAccepted)) + Parses

\* the validator accepted a chunk that starts with a keyword of the DSL
C10_Witness ==
  /\ Len(calls) > 0
  /\ Last(calls).ok
  /\ Last(calls).t = STATEMENT
  /\ Scan(Last(calls).l, NewScanner).tok \in {QUERY, INSERT, EXEC, SET, GO, WAIT}
  /\ Last(seq) = InfluxqlStatement(Last(calls).l)

(***************************************************************************)
(* C11                                                                     *)
(***************************************************************************)
\* the script holds nothing but newlines
BlankScript == \A i \in 1..Len(script) : isNewline(script[i])

\* C11: on a script that holds nothing but newlines, the empty script
\* included, ParseCommands returns an empty statement sequence and no error.
C11_BlankScript ==
  (pc = "done" /\ BlankScript) =>
    /\ ret.err = nil
    /\ ~ret.isNil
    /\ ret.seq = <<>>

\* ParseCommands returned on a script of three newlines or more
C11_Witness ==
  /\ pc = "done"
  /\ BlankScript
  /\ Len(script) >= 3
  /\ Len(calls) = 1
  /\ calls[1].t = BREAK

(***************************************************************************)
(* C12                                                                     *)
(***************************************************************************)
\* the parser has just failed on src: ParseCommands returned its error
Failed == pc = "done" /\ ret # NoRet /\ ret.err # nil

\* the first token of the chunk that is not whitespace is SET
SetChunk == Len(Words) >= 1 /\ Words[1].tok = SET

\* C12: of a chunk SET <ident> <v> the parser returns a SetStatement exactly
\* when <ident> is an identifier and <v> an identifier, a number or a
\* duration value, and then with the lexeme of <ident> as the name and the
\* lexeme of <v> as the value; any other token where the value is expected,
\* the end of the input included, is an error.  "SET rate 5\n\n" gives one
\* SetStatement of name "rate" and value "5".
C12_Set ==
  /\ (Delivered /\ SetChunk) =>
       /\ Len(Words) = 3
       /\ Words[2].tok = IDENT
       /\ Words[3].tok \in {IDENT, NUMBER, DURATIONVAL}
       /\ Last(seq) = [kind |-> "SetStatement",
                       Var |-> Words[2].lit, Value |-> Words[3].lit]
  /\ (Failed /\ SetChunk /\ Len(Words) >= 2 /\ Words[2].tok = IDENT) =>
       \/ Len(Words) = 2
       \/ Words[3].tok \notin {IDENT, NUMBER, DURATIONVAL}
  /\ (pc = "done" /\ script = Scenario1 /\ Rejected) =>
       /\ ret.err = nil
       /\ ret.seq = << [kind |-> "SetStatement",
                        Var |-> <<"r","a","t","e">>, Value |-> <<"5">>] >>

\* a SetStatement whose value is a duration value was returned
C12_Witness ==
  /\ Delivered
  /\ SetChunk
  /\ Words[3].tok = DURATIONVAL
  /\ Last(seq).kind = "SetStatement"

(***************************************************************************)
(* C13                                                                     *)
(***************************************************************************)
\* C13: neither scanner calls unread twice with no read between the two
\* calls, the unread that peek makes counted: the one-rune pushback is used
\* as the reader allows, in the chunk splitter and in the tokenizer.
C13_SingleSlotPushback == ~sc.twice /\ ~prs.s.twice

(***************************************************************************)
(* C14                                                                     *)
(***************************************************************************)
\* Parse has returned on src, the chunk of the last call of NewParser
Parsed ==
  /\ pc \in {"ParseCommands", "done"}
  /\ Len(calls) > 0
  /\ Last(calls).op = "NewParser"

\* the chunk is GO followed by a token that is none of QUERY, INSERT and
\* EXEC, or by the end of the input
GoOther ==
  /\ Len(Words) >= 1
  /\ Words[1].tok = GO
  /\ (Len(Words) >= 2 => Words[2].tok \notin {QUERY, INSERT, EXEC})

\* C14: when the first token after GO that is not whitespace is none of
\* QUERY, INSERT and EXEC (SET, WAIT, GO, an identifier, the end of the
\* input), ParseGoStatement returns no error and a GoStatement whose inner
\* statement is not set.
C14_GoOther ==
  (Parsed /\ GoOther) =>
    /\ ret = NoRet \/ ret.err = nil
    /\ Len(seq) > 0
    /\ Last(seq) = [kind |-> "GoStatement", Statement |-> NilStmt]

\* GO followed by SET gave a GoStatement with no inner statement
C14_Witness ==
  /\ Parsed
  /\ GoOther
  /\ Len(Words) = 2
  /\ Words[2].tok = SET
  /\ Last(seq) = [kind |-> "GoStatement", Statement |-> NilStmt]

(***************************************************************************)
(* C15                                                                     *)
(***************************************************************************)
\* this step of the field list of ParseInsertStatement scans one token, a
\* whitespace token
ScansWhitespace ==
  /\ pc = "InsertLoop"
  /\ Len(prs.toks) > 0
  /\ Len(prs'.toks) = Len(prs.toks) + 1
  /\ Last(prs'.toks).tok = WS

\* C15: in the field list of an INSERT, a whitespace token appends one space
\* to templateString, and nothing when the token just before it is a comma;
\* so the whitespace after the ']' of a bracketed template appends a space.
C15_WhitespaceInFields ==
  [][ ScansWhitespace =>
        stmt'.TemplateString =
          stmt.TemplateString
            \o (IF Last(prs.toks).tok = COMMA THEN <<>> ELSE <<SP>>) ]_vars

(***************************************************************************)
(* C16                                                                     *)
(***************************************************************************)
\* the kinds of token that are a run of characters
IsRun(t) == t.tok \notin {ILLEGAL, TEMPLATEVAR, COMMA, LPAREN, RPAREN, LBRACKET, RBRACKET}

\* C16: the tokenizer returns the end-of-input token only when the chunk is
\* used up; a character no rule covers gives an ILLEGAL token whose lexeme
\* is that character, the scan going on with the next character; and a run
\* (whitespace, identifier or keyword, number) holds every character it
\* consumed: no character inside the text ends the tokens or a run early.
C16_EndOfInput ==
  /\ prs.buf.tok = EOF => prs.s.pos > Len(src)
  /\ \A i \in 1..Len(prs.toks) :
       prs.toks[i].tok = ILLEGAL =>
         /\ prs.toks[i].to = prs.toks[i].from + 1
         /\ prs.toks[i].lit = <<src[prs.toks[i].from]>>
  /\ \A i \in 1..Len(prs.toks) :
       IsRun(prs.toks[i]) =>
         Len(prs.toks[i].lit) = prs.toks[i].to - prs.toks[i].from

(***************************************************************************)
(* C17                                                                     *)
(***************************************************************************)
\* the first index from from on where two newlines stand side by side in the
\* script, or the index after its last character when there is none
RunEnd(from) ==
  LET D == { e \in from..(Len(script) - 1) :
               isNewline(script[e]) /\ isNewline(script[e + 1]) }
  IN IF D = {} THEN Len(script) + 1
     ELSE CHOOSE e \in D : \A d \in D : e <= d

\* C17: a statement chunk starts with a character that is no newline and is
\* the script from that character up to the first two newlines side by side,
\* these left out, or up to the end of the script: single newlines are kept,
\* one just before the end of the script too, and no chunk holds two
\* newlines side by side.
C17_StatementChunks ==
  \A i \in 1..Len(calls) :
    calls[i].t = STATEMENT =>
      /\ Len(calls[i].l) > 0
      /\ ~isNewline(calls[i].l[1])
      /\ calls[i].l = SubSeq(script, calls[i].from, RunEnd(calls[i].from) - 1)
      /\ \A k \in 1..(Len(calls[i].l) - 1) :
           ~(isNewline(calls[i].l[k]) /\ isNewline(calls[i].l[k + 1]))

(***************************************************************************)
(* C18                                                                     *)
(***************************************************************************)
\* C18: the kinds Scan returns one call after the other alternate between
\* STATEMENT and BREAK until it returns EOF; after a statement run that the
\* end of the script ended, the next call returns EOF; and once Scan has
\* returned EOF, a further call returns EOF again.
C18_Alternation ==
  /\ \A i \in 1..(Len(Offers) - 1) : Offers[i].t # Offers[i + 1].t
  /\ \A i \in 1..Len(Offers) :
       (Offers[i].t = STATEMENT /\ Offers[i].from + Len(Offers[i].l) > Len(script)) =>
         /\ i = Len(Offers)
         /\ main_Scan(script, sc).tok = main_EOF
  /\ (ret # NoRet /\ ret.err = nil) => main_Scan(script, sc).tok = main_EOF

(***************************************************************************)
(* C19                                                                     *)
(***************************************************************************)
IsStatementChunk(c) == c.t = STATEMENT
IsBreakChunk(c) == c.t = BREAK

\* the statement chunks offered to the validator so far
StatementChunks == SelectSeq(Offers, IsStatementChunk)

\* the parser is at work on the last chunk, or has failed on it
Pending ==
  IF pc \notin {"ParseCommands", "done"} \/ (ret # NoRet /\ ret.err # nil)
    THEN 1 ELSE 0

\* C19: a break chunk is skipped: the parser is never made on its text, it
\* is never the chunk an error comes from, and no statement is appended for
\* it; the statements are, in the order of the script, one for each
\* statement chunk, and on success the result holds as many statements as
\* the script holds statement chunks.
C19_BreakSkipped ==
  /\ \A i \in 1..Len(calls) : calls[i].op = "NewParser" => calls[i].t = STATEMENT
  /\ (ret # NoRet /\ ret.err # nil) => Last(calls).t = STATEMENT
  /\ Len(seq) = Len(StatementChunks) - Pending
  /\ \A k \in 1..Len(seq) :
       /\ IsPassthrough(seq[k]) <=> StatementChunks[k].ok
       /\ IsPassthrough(seq[k]) => seq[k].Value = StatementChunks[k].l
  /\ ReturnedOK =>
       /\ ret.seq = seq
       /\ Len(ret.seq) = Len(SelectSeq(AllChunks, IsStatementChunk))

\* ParseCommands returned the two statements of a script with a break chunk
\* between its two statement chunks, the first one parsed
C19_Witness ==
  /\ ReturnedOK
  /\ Len(ret.seq) = 2
  /\ ~IsPassthrough(ret.seq[1])
  /\ Len(Offers) = 3
  /\ Offers[2].t = BREAK

(***************************************************************************)
(* C20                                                                     *)
(***************************************************************************)
\* C20: in every run of the parser unscan is called only directly after a
\* scan, so never before the first scan and never twice with no scan
\* between, and the scan that follows an unscan returns the token and the
\* lexeme scan returned last, the tokenizer left where it was.
C20_OneTokenPushback ==
  /\ ~prs.bad
  /\ ~prs.stale
  /\ prs.buf.n = 1 =>
       /\ prs.lastCall = "unscan"
       /\ scan(src, prs).tok = prs.last.tok
       /\ scan(src, prs).lit = prs.last.lit
       /\ scan(src, prs).p.s = prs.s

\* GO INSERT with a template that holds a function was parsed: Parse,
\* ParseGoStatement, ParseTemplate and ParseInsertStatement each pushed a
\* token back
C20_Witness ==
  /\ Delivered
  /\ Last(seq).kind = "GoStatement"
  /\ Last(seq).Statement.kind = "InsertStatement"
  /\ Len(Last(seq).Statement.Templates) = 1
  /\ Len(Last(seq).Statement.Templates[1].Functions) = 1
  /\ prs.lastCall = "scan"

(***************************************************************************)
(* C21                                                                     *)
(***************************************************************************)
\* the keywords, each the lexeme in upper case that names its token
Keywords ==
  { <<"S","E","T">>,
    <<"U","S","E">>,
    <<"Q","U","E","R","Y">>,
    <<"I","N","S","E","R","T">>,
    <<"G","O">>,
    <<"D","O">>,
    <<"W","A","I","T">>,
    <<"E","X","E","C">>,
    <<"S","T","R">>,
    <<"I","N","T">>,
    <<"F","L","O","A","T">> }

\* the token whose lexeme in upper case is the keyword k
KeywordToken(k) ==
  CASE k = <<"S","E","T">> -> SET
    [] k = <<"U","S","E">> -> KW_USE
    [] k = <<"Q","U","E","R","Y">> -> QUERY
    [] k = <<"I","N","S","E","R","T">> -> INSERT
    [] k = <<"G","O">> -> GO
    [] k = <<"D","O">> -> DO
    [] k = <<"W","A","I","T">> -> WAIT
    [] k = <<"E","X","E","C">> -> EXEC
    [] k = <<"S","T","R">> -> STR
    [] k = <<"I","N","T">> -> INT
    [] k = <<"F","L","O","A","T">> -> FLOAT

\* the tokens of the chunk that start with a letter
StartsWithLetter(t) == isLetter(src[t.from])

\* C21: a run that starts with a letter is the longest run of letters,
\* digits, '_', ':', '=' and '-' from there; its token is a keyword exactly
\* when the whole lexeme, in upper case, is one of SET, USE, QUERY, INSERT,
\* GO, DO, WAIT, EXEC, STR, INT and FLOAT, and is IDENT otherwise, a keyword
\* followed by more of the run included; the lexeme is the run as the chunk
\* writes it, its case kept.
C21_Keywords ==
  \A i \in 1..Len(prs.toks) :
    StartsWithLetter(prs.toks[i]) =>
      /\ prs.toks[i].lit =
           SubSeq(src, prs.toks[i].from, prs.toks[i].from + Len(prs.toks[i].lit) - 1)
      /\ \A k \in 1..Len(prs.toks[i].lit) : isIdentRune(prs.toks[i].lit[k])
      /\ prs.toks[i].from + Len(prs.toks[i].lit) <= Len(src) =>
           ~isIdentRune(src[prs.toks[i].from + Len(prs.toks[i].lit)])
      /\ IF ToUpper(prs.toks[i].lit) \in Keywords
           THEN prs.toks[i].tok = KeywordToken(ToUpper(prs.toks[i].lit))
           ELSE prs.toks[i].tok = IDENT

\* the tokenizer returned USE, with the lexeme "Use", for the chunk "Use"
C21_Witness ==
  /\ pc = "done"
  /\ src = <<"U","s","e">>
  /\ Len(prs.toks) = 1
  /\ prs.toks[1].tok = KW_USE
  /\ prs.toks[1].lit = <<"U","s","e">>

====
